---- MODULE Spec2Model ----
(***************************************************************************)
(* A model of one turn of the StoryAgent demo (src/demo/story_agent/app.py, *)
(* the generator story_agent and its nested update_component).             *)
(*                                                                         *)
(* Strings that the code takes apart are sequences: a text is a sequence   *)
(* of tokens (words, " ", "\n", the "<|user|>" marker), an idx parameter   *)
(* is a sequence of characters.  A Python dict is a function whose DOMAIN  *)
(* is its key set, so that a missing key is a KeyError as in the code.     *)
(* A gradio update (gr.Image.update, gr.Textbox.update) is represented by *)
(* the "value" keyword argument it carries.                                *)
(***************************************************************************)
EXTENDS Integers, Sequences, FiniteSets, TLC

\* One turn of story_agent.
VARIABLES inputs, pc, chatbot, output_component, response, frames, snaps, error

\* A BaseKnowledge object, its cache directory, and the last call made on it.
VARIABLES knowledge_inputs, knowledge, cache_dir, last_call, calls

\* The page of one browser session, the agent shared by its handlers, the
\* story_agent calls its events started, the other handlers not yet run,
\* and the events so far.
VARIABLES page, agent_memory, turns, handlers, clicks

turnVars == <<inputs, pc, chatbot, output_component, response, frames, snaps, error>>

knowledgeVars == <<knowledge_inputs, knowledge, cache_dir, last_call, calls>>

sessionVars == <<page, agent_memory, turns, handlers, clicks>>

vars == <<turnVars, knowledgeVars, sessionVars>>

(***************************************************************************)
(* Constants of the program and bounds of the model.                       *)
(***************************************************************************)
MAX_SCENE == 4

\* The largest number of frames the frame source produces in one turn.
MaxFrames == 3

PROMPT_START == <<"PROMPT_START">>

\* Python's None: as a transcript text, and as a component value.
NoneText == <<"None">>
NoneValue == "None"

\* The marker at which story_agent cuts the model's text.
USER_MARK == "<|user|>"

\* The markers the system prompt tells the model to put around a tool call.
START_MARK == "<|startofthink|>"

END_MARK == "<|endofthink|>"

\* The characters str.strip() removes, among those a string of this module
\* can hold (code points below 256): tab, newline, vertical tab, form feed,
\* carriage return, the separators 28-31, space, NEL and no-break space.
Whitespace ==
    {"\t", "\n", "", "\f", "\r", "", "", "", "", " ",
     "", " "}

(***************************************************************************)
(* Python primitives used by the code.                                     *)
(***************************************************************************)
\* dict.get(key, default)
Get(d, key, default) == IF key \in DOMAIN d THEN d[key] ELSE default

\* len() of a dict, or of the '' that frame.get('exec_result', '') defaults to
len(d) == Cardinality(DOMAIN d)

\* d after d.pop(key), for a key that is present
Without(d, key) == [k \in (DOMAIN d) \ {key} |-> d[k]]

\* str.split("<|user|>")[0]: the text before the first marker
RECURSIVE SplitFirst(_)
SplitFirst(text) ==
    IF text = <<>> \/ Head(text) = USER_MARK
    THEN <<>>
    ELSE <<Head(text)>> \o SplitFirst(Tail(text))

RECURSIVE LStrip(_)
LStrip(text) ==
    IF text # <<>> /\ Head(text) \in Whitespace THEN LStrip(Tail(text)) ELSE text

RECURSIVE RStrip(_)
RStrip(text) ==
    IF text # <<>> /\ text[Len(text)] \in Whitespace
    THEN RStrip(SubSeq(text, 1, Len(text) - 1))
    ELSE text

\* str.strip()
strip(text) == RStrip(LStrip(text))

Digits == {"0", "1", "2", "3", "4", "5", "6", "7", "8", "9"}

DigitValue(c) ==
    CASE c = "0" -> 0 [] c = "1" -> 1 [] c = "2" -> 2 [] c = "3" -> 3
      [] c = "4" -> 4 [] c = "5" -> 5 [] c = "6" -> 6 [] c = "7" -> 7
      [] c = "8" -> 8 [] c = "9" -> 9

RECURSIVE DigitsValue(_, _)
DigitsValue(s, acc) ==
    IF s = <<>> THEN acc
    ELSE DigitsValue(Tail(s), 10 * acc + DigitValue(Head(s)))

\* The digits of a numeral: decimal digits, single underscores between them.
IsNumeral(body) ==
    /\ body # <<>>
    /\ \A i \in 1..Len(body) : body[i] \in Digits \cup {"_"}
    /\ body[1] \in Digits
    /\ body[Len(body)] \in Digits
    /\ \A i \in 1..(Len(body) - 1) : ~(body[i] = "_" /\ body[i + 1] = "_")

IsDigit(c) == c \in Digits

\* The blanks int() skips around a numeral: the six ASCII blanks, and the
\* blanks above U+007F, which are turned into spaces before parsing.  The
\* separators U+001C to U+001F are stripped by str.strip but not by int().
IntWhitespace == Whitespace \ {"", "", "", ""}

RECURSIVE IntLStrip(_)
IntLStrip(text) ==
    IF text # <<>> /\ Head(text) \in IntWhitespace THEN IntLStrip(Tail(text))
    ELSE text

RECURSIVE IntRStrip(_)
IntRStrip(text) ==
    IF text # <<>> /\ text[Len(text)] \in IntWhitespace
    THEN IntRStrip(SubSeq(text, 1, Len(text) - 1))
    ELSE text

\* Python's None.
PyNone == [type |-> "NoneType"]

\* The values a tool result may hold under 'idx'.
PyStr(s) == [str |-> s]

PyInt(n) == [int |-> n]

PyBool(b) == [bool |-> b]

\* The finite float num / den, den > 0.
PyFloat(num, den) == [float |-> [num |-> num, den |-> den]]

\* int(s) of a str: surrounding blanks are dropped, then an optional sign
\* and a numeral, else ValueError.
IntOfStr(s) ==
    LET t == IntRStrip(IntLStrip(s))
        signed == t # <<>> /\ Head(t) \in {"-", "+"}
        body == IF signed THEN Tail(t) ELSE t
        digits == SelectSeq(body, IsDigit)
    IN  IF IsNumeral(body)
        THEN [raised |-> "none",
              value |-> IF signed /\ Head(t) = "-"
                        THEN 0 - DigitsValue(digits, 0)
                        ELSE DigitsValue(digits, 0)]
        ELSE [raised |-> "ValueError", value |-> 0]

\* int(x): a str is parsed, an int is itself, a bool is 0 or 1, a float is
\* truncated towards zero, anything else (None) is a TypeError.
int(x) ==
    IF "str" \in DOMAIN x THEN IntOfStr(x.str)
    ELSE IF "int" \in DOMAIN x THEN [raised |-> "none", value |-> x.int]
    ELSE IF "bool" \in DOMAIN x
    THEN [raised |-> "none", value |-> IF x.bool THEN 1 ELSE 0]
    ELSE IF "float" \in DOMAIN x
    THEN [raised |-> "none",
          value |-> IF x.float.num >= 0 THEN x.float.num \div x.float.den
                    ELSE 0 - ((0 - x.float.num) \div x.float.den)]
    ELSE [raised |-> "TypeError", value |-> 0]

\* A value a component held on the page, as an item of output_component.
Plain(v) == [plain |-> v]

\* lst[p] = v that leaves a slot already filled as it is
ListSet_once(lst, p, v) ==
    IF 0 <= p /\ p < Len(lst)
    THEN [raised |-> "none",
          list |-> IF lst[p + 1] \in {Plain(""), Plain(NoneValue)}
                   THEN [lst EXCEPT ![p + 1] = v] ELSE lst]
    ELSE IF p < 0 /\ 0 - Len(lst) <= p
    THEN [raised |-> "none",
          list |-> IF lst[Len(lst) + p + 1] \in {Plain(""), Plain(NoneValue)}
                   THEN [lst EXCEPT ![Len(lst) + p + 1] = v] ELSE lst]
    ELSE [raised |-> "IndexError", list |-> lst]

\* lst[p] = v for a Python list: p counts from 0, a negative p from the end,
\* and a p outside -len..len-1 is an IndexError
ListSet(lst, p, v) ==
    IF 0 <= p /\ p < Len(lst)
    THEN [raised |-> "none", list |-> [lst EXCEPT ![p + 1] = v]]
    ELSE IF p < 0 /\ 0 - Len(lst) <= p
    THEN [raised |-> "none", list |-> [lst EXCEPT ![Len(lst) + p + 1] = v]]
    ELSE [raised |-> "IndexError", list |-> lst]

\* gr.Image.update and gr.Textbox.update of keywords kw: a dict that carries
\* the keywords and is marked as an update
Update(kw) ==
    [k \in (DOMAIN kw) \cup {"__type__"} |->
        IF k = "__type__" THEN "update" ELSE kw[k]]

(***************************************************************************)
(* update_component: the slot router nested in story_agent.  The result    *)
(* says which exception left the function ("none": it returned) and what   *)
(* output_component holds at that point.                                   *)
(***************************************************************************)
\* Python index of the image slot and of the caption slot of scene idx
ImageIndex_off(idx) == idx

ImageIndex(idx) == idx + 1

CaptionIndex_off(idx) == idx + MAX_SCENE

CaptionIndex(idx) == idx + MAX_SCENE + 1

Returned(oc) == [raised |-> "none", oc |-> oc]

Raised(exc, oc) == [raised |-> exc, oc |-> oc]

\* for i, r in enumerate(exec_result['result']): output_component[i + 1] = ...
RECURSIVE ShowExamples(_, _, _)
ShowExamples(oc, rs, i) ==
    IF i >= Len(rs) THEN Returned(oc)
    ELSE LET w == ListSet(oc, i + 1, Update(rs[i + 1]))
         IN  IF w.raised # "none" THEN Raised(w.raised, oc)
             ELSE ShowExamples(w.list, rs, i + 1)

ImageGeneration(oc, r) ==
    IF "idx" \notin DOMAIN r THEN Raised("KeyError", oc)
    ELSE LET idx == int(r["idx"])
         IN  IF idx.raised # "none" THEN Raised(idx.raised, oc)
             ELSE IF "img_result" \notin DOMAIN r THEN Raised("KeyError", oc)
             ELSE LET w1 == ListSet(oc, ImageIndex(idx.value),
                                    Update(r["img_result"]))
                  IN  IF w1.raised # "none" THEN Raised(w1.raised, oc)
                      ELSE IF "text_result" \notin DOMAIN r
                      THEN Raised("KeyError", w1.list)
                      ELSE LET w2 == ListSet(w1.list, CaptionIndex(idx.value),
                                             Update(r["text_result"]))
                           IN  IF w2.raised # "none"
                               THEN Raised(w2.raised, w1.list)
                               ELSE Returned(w2.list)

update_component(oc, exec_result) ==
    IF "result" \notin DOMAIN exec_result THEN Raised("KeyError", oc)
    ELSE LET whole == exec_result["result"]
         IN  IF "name" \notin DOMAIN whole THEN Raised("KeyError", oc)
             ELSE LET name == whole["name"]
                      r == Without(whole, "name")
                  IN  IF name = "print_story_tool"
                      THEN LET w == ListSet(oc, 0, Update(r))
                           IN  Returned(w.list)
                      ELSE IF name = "show_image_example"
                      THEN IF "result" \notin DOMAIN r
                           THEN Raised("KeyError", oc)
                           ELSE ShowExamples(oc, r["result"], 0)
                      ELSE IF name = "image_generation"
                      THEN ImageGeneration(oc, r)
                      ELSE Returned(oc)

(***************************************************************************)
(* The body of story_agent.                                                *)
(***************************************************************************)
\* The commented-out reset_component of lines 228-232: every image and caption
\* slot becomes an update that hides it.
reset_component(oc) ==
    [i \in 1..Len(oc) |->
        IF 1 < i /\ i <= 2 * MAX_SCENE + 1
        THEN Update([visible |-> FALSE]) ELSE oc[i]]

\* output_component = list(inputs[3:])
OutputComponents_reset(inp) ==
    reset_component([i \in 1..Len(inp.components) |-> Plain(inp.components[i])])

OutputComponents(inp) == [i \in 1..Len(inp.components) |-> Plain(inp.components[i])]

\* (user_input, None), the pair that chatbot.append adds
PendingPair(user_input) == <<user_input, NoneText>>

\* yield chatbot, *output_component
Snapshot(chat, oc) == [chatbot |-> chat, components |-> oc]

\* chatbot[-1] = (user_input, response)
SetLast_append(chat, pair) == Append(chat, pair)

SetLast(chat, pair) == [chat EXCEPT ![Len(chat)] = pair]

\* response = f'{response}\n{frame_text}'
JoinResponse_prepend(resp, frame_text) == frame_text \o <<"\n">> \o resp

JoinResponse(resp, frame_text) == resp \o <<"\n">> \o frame_text

\* is_final = frame.get("frame_is_final"): read at line 257, used nowhere
is_final(frame) == Get(frame, "frame_is_final", FALSE)

\* One pass of the loop body over `frame`, lines 257-269: the exception that
\* left it ("none": it reached the yield), output_component and response.
FrameStep(oc, resp, frame) ==
    LET llm_result == strip(SplitFirst(Get(frame, "llm_text", <<>>)))
        exec_result == Get(frame, "exec_result", <<>>)
    IN  IF len(exec_result) # 0
        THEN LET u == update_component(oc, exec_result)
             IN  IF u.raised # "none"
                 THEN [raised |-> u.raised, oc |-> u.oc, response |-> resp]
                 ELSE [raised |-> "none", oc |-> u.oc,
                       response |-> JoinResponse(resp, <<" ">>)]
        ELSE [raised |-> "none", oc |-> oc,
              response |-> JoinResponse(resp, llm_result)]

(***************************************************************************)
(* The inputs of a turn and the frames of the frame source.                *)
(***************************************************************************)
\* The components as the page first shows them: the story box, MAX_SCENE
\* images, MAX_SCENE captions.
InitialComponents ==
    <<"">> \o [i \in 1..MAX_SCENE |-> NoneValue] \o [i \in 1..MAX_SCENE |-> ""]

\* The components after an earlier turn filled the story and scenes 0 and 3.
EarlierComponents ==
    <<"old_story", "old_img0", NoneValue, NoneValue, "old_img3",
      "old_txt0", "", "", "old_txt3">>

InitialChatbot == << <<"None", PROMPT_START>> >>

EarlierChatbot == << <<"None", PROMPT_START>>, <<"u0", <<"\n", "a">>>> >>

TurnInputs ==
    { [user_input |-> "u1", chatbot |-> InitialChatbot,
       components |-> InitialComponents],
      [user_input |-> "u1", chatbot |-> EarlierChatbot,
       components |-> EarlierComponents] }

ToolFrame(r) == [exec_result |-> [result |-> r]]

ImageResult(idx, n) ==
    [name |-> "image_generation", idx |-> idx,
     img_result |-> [value |-> IF n = 1 THEN "img_1" ELSE "img_2"],
     text_result |-> [value |-> IF n = 1 THEN "txt_1" ELSE "txt_2"]]

\* The frames the source may produce, one of them at each step.
FrameChoices ==
    << [llm_text |-> <<"a">>, frame_is_final |-> FALSE],
       [llm_text |-> <<"\t", "b", "\r", "\n">>, frame_is_final |-> FALSE],
       [llm_text |-> <<"a", USER_MARK, "b">>, frame_is_final |-> FALSE],
       [llm_text |-> <<"b">>, frame_is_final |-> TRUE],
       [llm_text |-> <<"a", START_MARK, "{">>, frame_is_final |-> FALSE],
       ToolFrame([name |-> "print_story_tool", value |-> "story_1"]),
       ToolFrame([name |-> "show_image_example",
                  result |-> <<[value |-> "ex_1"], [value |-> "ex_2"]>>]),
       ToolFrame(ImageResult(PyStr(<<"0">>), 1)),
       ToolFrame(ImageResult(PyInt(0), 2)),
       ToolFrame(ImageResult(PyStr(<<" ", "3", "\n">>), 2)),
       ToolFrame(ImageResult(PyStr(<<"-", "1">>), 1)),
       ToolFrame(ImageResult(PyStr(<<"4">>), 1)),
       ToolFrame(ImageResult(PyFloat(27, 10), 1)),
       ToolFrame(ImageResult(PyStr(<<"", "3">>), 1)),
       ToolFrame(ImageResult(PyNone, 1)),
       ToolFrame([name |-> "image_generation",
                  img_result |-> [value |-> "img_1"],
                  text_result |-> [value |-> "txt_1"]]),
       ToolFrame([name |-> "other_tool", value |-> "v"]),
       [exec_result |-> [error |-> "failed"]],
       ToolFrame([value |-> "v"]),
       [llm_text |-> <<"a">>, frame_is_final |-> TRUE,
        exec_result |-> [result |-> [name |-> "print_story_tool",
                                     value |-> "story_1"]]] >>

(***************************************************************************)
(* BaseKnowledge (src/modelscope_agent/rag/knowledge.py).  What llama-index *)
(* and the file system do is the environment: `env` says, for one call,    *)
(* how reading ends ("docs", "ValueError", "Exception"), whether the index *)
(* loads from the cache, how building the index ends ("ok",                *)
(* "build_raises", "persist_raises") and whether the query engine builds.  *)
(***************************************************************************)
PyDict(d) == [type |-> "dict", items |-> d]

\* The readers get_extra_readers adds when llama-index-readers-file imports.
BuiltinReaders ==
    [e \in {".pb", ".html", ".txt"} |->
        IF e = ".pb" THEN "PandasCSVReader()"
        ELSE IF e = ".html" THEN "HTMLTagReader()" ELSE "FlatReader()"]

\* loader_cls(): a reader class either instantiates or raises.
Instantiates(cls) == cls # "BrokenReader"

Instance(cls) == IF cls = "GoodReader" THEN "GoodReader()" ELSE "OtherReader()"

\* d.update(other): d is changed in place and the call returns None.
DictUpdate(d, other) ==
    [result |-> PyNone,
     d |-> [k \in (DOMAIN d) \cup (DOMAIN other) |->
               IF k \in DOMAIN other THEN other[k] ELSE d[k]]]

\* Lines 182-209: a loader class that cannot be instantiated is reported
\* and skipped, a failed import of the readers package is reported.
get_extra_readers(loaders, package_found) ==
    LET extra_readers ==
            [e \in {x \in DOMAIN loaders : Instantiates(loaders[x])} |->
                Instance(loaders[e])]
        skipped == \E x \in DOMAIN loaders : ~Instantiates(loaders[x])
    IN  IF ~package_found
        THEN [result |-> PyDict(extra_readers), printed |-> TRUE]
        ELSE [result |-> DictUpdate(BuiltinReaders, extra_readers).result,
              printed |-> skipped]

\* documents = None, and a list of documents
NoDocuments == [none |-> TRUE, docs |-> {}]

Documents(ds) == [none |-> FALSE, docs |-> ds]

\* if isinstance(files, str): files = [files]
AsList(files) == IF files.is_str THEN <<files.value>> ELSE files.value

\* Lines 211-250: a ValueError of the reader is caught and reported and the
\* documents are []; any other exception leaves read.
read_propagates(knowledge_source, env) ==
    IF env.read = "docs"
    THEN [raised |-> "none", printed |-> FALSE,
          documents |-> Documents({knowledge_source[i] :
                                     i \in 1..Len(knowledge_source)})]
    ELSE [raised |-> env.read, printed |-> FALSE, documents |-> NoDocuments]

read(knowledge_source, env) ==
    IF env.read = "docs"
    THEN [raised |-> "none", printed |-> FALSE,
          documents |-> Documents({knowledge_source[i] :
                                     i \in 1..Len(knowledge_source)})]
    ELSE IF env.read = "ValueError"
    THEN [raised |-> "none", printed |-> TRUE, documents |-> Documents({})]
    ELSE [raised |-> env.read, printed |-> FALSE, documents |-> NoDocuments]

NoRetriever == [none |-> TRUE, docs |-> {}, filters |-> <<>>]

\* Lines 130-180: the index comes from the cache, from the documents or from
\* both; without either the result is None.  from_documents runs when no
\* index was loaded, insert once for each document otherwise; a cache that
\* cannot be loaded is reported and then ignored.
get_root_retriever(documents, use_cache, cache, env) ==
    LET tried == use_cache /\ cache.exists
        loaded == tried /\ env.load
        load_printed == tried /\ ~env.load
        cached == IF loaded THEN Documents(cache.docs) ELSE NoDocuments
        builds == ~documents.none /\ (~loaded \/ documents.docs # {})
        index == IF documents.none THEN cached
                 ELSE Documents(cached.docs \cup documents.docs)
    IN  IF builds /\ env.index = "build_raises"
        THEN [raised |-> "Exception", retriever |-> NoRetriever, cache |-> cache,
              printed |-> load_printed]
        ELSE IF index.none
        THEN [raised |-> "none", retriever |-> NoRetriever, cache |-> cache,
              printed |-> TRUE]
        ELSE IF env.index = "persist_raises"
        THEN [raised |-> "Exception", retriever |-> NoRetriever, cache |-> cache,
              printed |-> load_printed]
        ELSE [raised |-> "none",
              retriever |-> [none |-> FALSE, docs |-> index.docs, filters |-> <<>>],
              cache |-> [exists |-> TRUE, docs |-> index.docs],
              printed |-> load_printed]

\* self.query_engine before any assignment to it
NoQueryEngine == [set |-> FALSE, id |-> 0, retriever |-> NoRetriever]

\* Lines 92-97: a new engine object around the retriever, or the exception
\* of RetrieverQueryEngine.from_args.
get_query_engine(root_retriever, id, env) ==
    IF env.engine
    THEN [raised |-> "none",
          engine |-> [set |-> TRUE, id |-> id, retriever |-> root_retriever]]
    ELSE [raised |-> "Exception", engine |-> NoQueryEngine]

\* Lines 51-90.
BaseKnowledge(args, package_found, cache, env) ==
    LET e == get_extra_readers(args.loaders, package_found)
        extra_readers == e.result
        r == IF args.use_cache
             THEN [raised |-> "none", printed |-> FALSE, documents |-> NoDocuments]
             ELSE read(AsList(args.files), env)
        failed == [state |-> "failed", extra_readers |-> extra_readers,
                   query_engine |-> NoQueryEngine, made |-> 0]
    IN  IF r.raised # "none"
        THEN [raised |-> r.raised, self |-> failed, cache |-> cache,
              printed |-> e.printed \/ r.printed]
        ELSE LET g == get_root_retriever(r.documents, args.use_cache, cache, env)
                 printed == e.printed \/ r.printed \/ g.printed
             IN  IF g.raised # "none"
                 THEN [raised |-> g.raised, self |-> failed, cache |-> cache,
                       printed |-> printed]
                 ELSE IF g.retriever.none
                 THEN [raised |-> "none", cache |-> g.cache, printed |-> printed,
                       self |-> [state |-> "constructed",
                                 extra_readers |-> extra_readers,
                                 query_engine |-> NoQueryEngine, made |-> 0]]
                 ELSE LET q == get_query_engine(g.retriever, 1, env)
                      IN  IF q.raised # "none"
                          THEN [raised |-> q.raised, self |-> failed,
                                cache |-> g.cache, printed |-> printed]
                          ELSE [raised |-> "none", cache |-> g.cache,
                                printed |-> printed,
                                self |-> [state |-> "constructed",
                                          extra_readers |-> extra_readers,
                                          query_engine |-> q.engine, made |-> 1]]

\* Lines 270-281: whatever is raised inside the try is caught and printed.
add(self, files, cache, env) ==
    LET r == read(AsList(files), env)
        caught(c) == [raised |-> "none", printed |-> TRUE, self |-> self, cache |-> c]
    IN  IF r.raised # "none" THEN caught(cache)
        ELSE LET g == get_root_retriever(r.documents, TRUE, cache, env)
             IN  IF g.raised # "none" THEN caught(cache)
                 ELSE LET q == get_query_engine(g.retriever, self.made + 1, env)
                      IN  IF q.raised # "none" THEN caught(g.cache)
                          ELSE [raised |-> "none",
                                printed |-> r.printed \/ g.printed,
                                cache |-> g.cache,
                                self |-> [self EXCEPT !.query_engine = q.engine,
                                                      !.made = self.made + 1]]

\* os.path.basename of a path given as its segments
basename(path) == IF path = <<>> THEN "" ELSE path[Len(path)]

\* Lines 252-258: the filter is stored on the retriever of the query engine;
\* without a query engine the attribute lookup raises.
set_filter(self, files) ==
    IF ~self.query_engine.set
    THEN [raised |-> "AttributeError", self |-> self]
    ELSE [raised |-> "none",
          self |-> [self EXCEPT !.query_engine.retriever.filters =
                                   [i \in 1..Len(files) |-> basename(files[i])]]]

\* Lines 260-268: the filter is set when files is not empty, then the query
\* runs with whatever filter the retriever holds.
run(self, files, query_ok) ==
    LET fl == AsList(files)
        f == IF len(fl) > 0 THEN set_filter(self, fl)
             ELSE [raised |-> "none", self |-> self]
    IN  IF f.raised # "none"
        THEN [raised |-> f.raised, self |-> f.self, filters |-> <<>>]
        ELSE IF ~f.self.query_engine.set
        THEN [raised |-> "AttributeError", self |-> f.self, filters |-> <<>>]
        ELSE [raised |-> IF query_ok THEN "none" ELSE "Exception",
              self |-> f.self,
              filters |-> f.self.query_engine.retriever.filters]

(***************************************************************************)
(* The inputs and the environment of the BaseKnowledge model.              *)
(***************************************************************************)
\* The largest number of calls made on one BaseKnowledge object.
MaxCalls == 2

\* Files on disk; a name not among them does not exist.
ExistingFiles == {"a.pdf", "b.pdf"}

FileArguments ==
    { [is_str |-> TRUE, value |-> "a.pdf"],
      [is_str |-> FALSE, value |-> <<"b.pdf">>],
      [is_str |-> FALSE, value |-> <<"a.pdf", "missing.pdf">>] }

LoaderArguments ==
    { [e \in {".md"} |-> "GoodReader"],
      [e \in {".md", ".txt"} |-> IF e = ".md" THEN "BrokenReader" ELSE "OtherReader"] }

ConstructorArguments ==
    [loaders : LoaderArguments, files : FileArguments, use_cache : BOOLEAN]

CacheStates == { [exists |-> FALSE, docs |-> {}], [exists |-> TRUE, docs |-> {"c.pdf"}] }

\* What the environment may do during a call that reads `files`: a missing
\* file is a ValueError of the reader.
Environments(files) ==
    [read : IF \A i \in 1..Len(files) : files[i] \in ExistingFiles
            THEN {"docs", "Exception"} ELSE {"ValueError"},
     load : BOOLEAN,
     index : {"ok", "build_raises", "persist_raises"},
     engine : BOOLEAN]

NoCall == [op |-> "none", files |-> <<>>, env |-> [read |-> "docs", load |-> TRUE,
           index |-> "ok", engine |-> TRUE], raised |-> "none", printed |-> FALSE,
           before |-> NoQueryEngine, cache_before |-> [exists |-> FALSE, docs |-> {}],
           filters |-> <<>>, only_runs |-> TRUE]

NoObject == [state |-> "none", extra_readers |-> PyNone,
             query_engine |-> NoQueryEngine, made |-> 0]

\* The knowledge variables of a specification that has no BaseKnowledge.
NoKnowledge ==
    /\ knowledge_inputs = [args |-> [loaders |-> <<>>, files |-> <<>>, use_cache |-> TRUE],
                           package_found |-> TRUE]
    /\ knowledge = NoObject
    /\ cache_dir = [exists |-> FALSE, docs |-> {}]
    /\ last_call = NoCall
    /\ calls = 0

\* The turn variables of a specification that runs no turn.
NoTurn ==
    /\ inputs = [user_input |-> "", chatbot |-> <<>>, components |-> InitialComponents]
    /\ pc = "idle"
    /\ chatbot = <<>>
    /\ output_component = InitialComponents
    /\ response = <<>>
    /\ frames = <<>>
    /\ snaps = <<>>
    /\ error = "none"

(***************************************************************************)
(* One browser session of the demo (app.py lines 281-328).  An event fires *)
(* every handler registered for it; each handler runs on its own, so their *)
(* effects on the page interleave.  A story_agent call reads its inputs    *)
(* from the page when its event fires and writes the page at each yield.   *)
(***************************************************************************)
\* demo.queue(concurrency_count=10): the handlers that may run at once.
concurrency_count == 10

\* The largest number of events in one session.
MaxClicks == 2

\* The largest number of frames the stream of one session turn yields.
MaxTurnFrames == 1

\* What the user may type before submitting.
UserInputs == {"u1", "u2"}

\* The frames the stream of a session turn may yield.
SessionFrames ==
    << [llm_text |-> <<"a">>, frame_is_final |-> TRUE],
       ToolFrame([name |-> "print_story_tool", value |-> "story_1"]),
       ToolFrame(ImageResult(PyStr(<<"0">>), 1)),
       ToolFrame(ImageResult(PyStr(<<"x">>), 1)) >>

\* The page as the Blocks are built, lines 100-142.
InitialPage ==
    [user_input |-> "", chatbot |-> InitialChatbot, components |-> InitialComponents]

\* clean_outputs sent to clean_outputs_target, lines 290-292: the text box,
\* the chatbot, the images and the captions; story_content is no target.
CleanOutputs(pg, chat) ==
    [user_input |-> "",
     chatbot |-> chat,
     components |-> [i \in 1..Len(pg.components) |->
                       IF i = 1 THEN pg.components[i]
                       ELSE IF i <= MAX_SCENE + 1 THEN NoneValue ELSE ""]]

\* What a component shows after an output reaches it: a plain value, the
\* value of an update, or what it showed before when the update has none.
Shown(item, before) ==
    IF "plain" \in DOMAIN item THEN item.plain
    ELSE Get(item, "value", before)

\* The outputs of a yield sent to stream_predict_output, lines 284-286.
ShowSnapshot(pg, snap) ==
    [pg EXCEPT !.chatbot = snap.chatbot,
               !.components = [i \in 1..Len(snap.components) |->
                                 Shown(snap.components[i], pg.components[i])]]

\* agent.stream_run(task): the agent keeps the task in its memory.
AgentRemember(memory, task) == Append(memory, task)

\* agent.reset(), line 318
AgentReset(memory) == <<>>

\* A story_agent call whose event has just fired.
NewTurn(trigger, user_input) ==
    [trigger |-> trigger,
     inputs |-> [user_input |-> user_input, chatbot |-> page.chatbot,
                 components |-> page.components],
     pc |-> "idle", started |-> FALSE,
     chatbot |-> page.chatbot, output_component |-> page.components,
     response |-> <<>>, nframes |-> 0, frame |-> 0,
     after |-> {i \in 1..Len(turns) : turns[i].pc = "done"},
     interrupted |-> FALSE, rewrote |-> FALSE]

\* The calls between their first yield and their end.
Running == {i \in 1..Len(turns) : turns[i].pc \in {"await", "got"}}

Quiet ==
    /\ \A i \in 1..Len(turns) : turns[i].pc \in {"done", "raised"}
    /\ \A h \in DOMAIN handlers : handlers[h] = 0

NoHandlers ==
    [h \in {"clean_outputs", "clean_outputs_start", "clear_session"} |-> 0]

\* The session variables of a specification that has no page.
NoSession ==
    /\ page = InitialPage
    /\ agent_memory = <<>>
    /\ turns = <<>>
    /\ handlers = NoHandlers
    /\ clicks = <<>>

SessionInit ==
    /\ NoTurn
    /\ NoKnowledge
    /\ NoSession

\* user_input.submit and submitBtn.click, lines 293-307: story_agent and
\* the clean_outputs handler.
Submit ==
    /\ Len(clicks) < MaxClicks
    /\ Cardinality(Running) < concurrency_count
    /\ \E trigger \in {"user_input.submit", "submitBtn.click"} :
          \E u \in UserInputs :
              /\ page' = [page EXCEPT !.user_input = u]
              /\ turns' = Append(turns, NewTurn(trigger, u))
              /\ clicks' = Append(clicks, [name |-> trigger, quiet |-> Quiet])
    /\ handlers' = [handlers EXCEPT !["clean_outputs"] = @ + 1]
    /\ UNCHANGED agent_memory
    /\ UNCHANGED turnVars
    /\ UNCHANGED knowledgeVars

\* regenerate_button.click, lines 309-315: the same two handlers, with the
\* text box as it is.
Regenerate ==
    /\ Len(clicks) < MaxClicks
    /\ Cardinality(Running) < concurrency_count
    /\ turns' = Append(turns, NewTurn("regenerate_button.click", page.user_input))
    /\ clicks' = Append(clicks, [name |-> "regenerate_button.click", quiet |-> Quiet])
    /\ handlers' = [handlers EXCEPT !["clean_outputs"] = @ + 1]
    /\ UNCHANGED <<page, agent_memory>>
    /\ UNCHANGED turnVars
    /\ UNCHANGED knowledgeVars

\* clear_session_button.click, lines 320-324: clear_session and the
\* clean_outputs_start handler; nothing is cancelled.
ClearSessionClick ==
    /\ Len(clicks) < MaxClicks
    /\ clicks' = Append(clicks, [name |-> "clear_session_button.click", quiet |-> Quiet])
    /\ handlers' = [handlers EXCEPT !["clean_outputs_start"] = @ + 1,
                                    !["clear_session"] = @ + 1]
    /\ turns' = [i \in 1..Len(turns) |->
                   IF i \in Running
                   THEN [turns[i] EXCEPT !.interrupted = TRUE] ELSE turns[i]]
    /\ UNCHANGED <<page, agent_memory>>
    /\ UNCHANGED turnVars
    /\ UNCHANGED knowledgeVars

\* lambda: clean_outputs, lines 298-299
RunCleanOutputs ==
    /\ handlers["clean_outputs"] > 0
    /\ handlers' = [handlers EXCEPT !["clean_outputs"] = @ - 1]
    /\ page' = CleanOutputs(page, <<>>)
    /\ UNCHANGED <<agent_memory, turns, clicks>>
    /\ UNCHANGED turnVars
    /\ UNCHANGED knowledgeVars

\* lambda: clean_outputs_start, lines 321-324
RunCleanOutputsStart ==
    /\ handlers["clean_outputs_start"] > 0
    /\ handlers' = [handlers EXCEPT !["clean_outputs_start"] = @ - 1]
    /\ page' = CleanOutputs(page, InitialChatbot)
    /\ UNCHANGED <<agent_memory, turns, clicks>>
    /\ UNCHANGED turnVars
    /\ UNCHANGED knowledgeVars

\* clear_session, lines 317-320
RunClearSession ==
    /\ handlers["clear_session"] > 0
    /\ handlers' = [handlers EXCEPT !["clear_session"] = @ - 1]
    /\ agent_memory' = AgentReset(agent_memory)
    /\ UNCHANGED <<page, turns, clicks>>
    /\ UNCHANGED turnVars
    /\ UNCHANGED knowledgeVars

\* A yield of turn t after the reset that interrupted it has run.
Rewrites(t) ==
    /\ t.interrupted
    /\ handlers["clean_outputs_start"] = 0
    /\ handlers["clear_session"] = 0

\* Lines 217-254 of one call: the pending pair and the first yield.
TurnBegin ==
    /\ \E i \in 1..Len(turns) :
          /\ turns[i].pc = "idle"
          /\ LET t == turns[i]
                 chat == Append(t.inputs.chatbot, PendingPair(t.inputs.user_input))
                 oc == OutputComponents(t.inputs)
             IN  /\ turns' = [turns EXCEPT ![i] =
                                [t EXCEPT !.pc = "await", !.chatbot = chat,
                                          !.output_component = oc]]
                 /\ page' = ShowSnapshot(page, Snapshot(chat, oc))
    /\ UNCHANGED <<agent_memory, handlers, clicks>>
    /\ UNCHANGED turnVars
    /\ UNCHANGED knowledgeVars

\* Line 256 of one call, resumed after its first yield: agent.stream_run
\* is started with the task and the call waits for the first frame.
TurnStream ==
    /\ \E i \in 1..Len(turns) :
          /\ turns[i].pc = "await"
          /\ ~turns[i].started
          /\ turns' = [turns EXCEPT ![i] = [@ EXCEPT !.started = TRUE]]
          /\ agent_memory' = AgentRemember(agent_memory, turns[i].inputs.user_input)
    /\ UNCHANGED <<page, handlers, clicks>>
    /\ UNCHANGED turnVars
    /\ UNCHANGED knowledgeVars

\* Line 256 of one call: the stream hands over its next frame.
TurnNextFrame ==
    /\ \E i \in 1..Len(turns) :
          /\ turns[i].pc = "await"
          /\ turns[i].started
          /\ turns[i].nframes < MaxTurnFrames
          /\ \E f \in 1..Len(SessionFrames) :
                turns' = [turns EXCEPT ![i] =
                            [@ EXCEPT !.pc = "got", !.frame = f, !.nframes = @ + 1]]
    /\ UNCHANGED <<page, agent_memory, handlers, clicks>>
    /\ UNCHANGED turnVars
    /\ UNCHANGED knowledgeVars

\* Lines 257-272 of one call: the frame is merged and its snapshot yielded,
\* or the exception of update_component ends the call.
TurnFrame ==
    /\ \E i \in 1..Len(turns) :
          /\ turns[i].pc = "got"
          /\ LET t == turns[i]
                 s == FrameStep(t.output_component, t.response,
                                SessionFrames[t.frame])
                 chat == SetLast(t.chatbot, <<t.inputs.user_input, s.response>>)
             IN  IF s.raised # "none"
                 THEN /\ turns' = [turns EXCEPT ![i] =
                                     [t EXCEPT !.pc = "raised",
                                               !.output_component = s.oc,
                                               !.response = s.response]]
                      /\ UNCHANGED page
                 ELSE /\ turns' = [turns EXCEPT ![i] =
                                     [t EXCEPT !.pc = "await",
                                               !.chatbot = chat,
                                               !.output_component = s.oc,
                                               !.response = s.response,
                                               !.rewrote = @ \/ Rewrites(t)]]
                      /\ page' = ShowSnapshot(page, Snapshot(chat, s.oc))
    /\ UNCHANGED <<agent_memory, handlers, clicks>>
    /\ UNCHANGED turnVars
    /\ UNCHANGED knowledgeVars

\* Lines 256, 275-277 of one call: the stream ends; the closing yield.
TurnEnd ==
    /\ \E i \in 1..Len(turns) :
          /\ turns[i].pc = "await"
          /\ turns[i].started
          /\ LET t == turns[i]
                 chat == SetLast(t.chatbot, <<t.inputs.user_input, t.response>>)
             IN  /\ turns' = [turns EXCEPT ![i] =
                                [t EXCEPT !.pc = "done", !.chatbot = chat,
                                          !.rewrote = @ \/ Rewrites(t)]]
                 /\ page' = ShowSnapshot(page, Snapshot(chat, t.output_component))
    /\ UNCHANGED <<agent_memory, handlers, clicks>>
    /\ UNCHANGED turnVars
    /\ UNCHANGED knowledgeVars

\* Line 256 of one call: the stream itself raises; nothing catches it.
TurnStreamRaises ==
    /\ \E i \in 1..Len(turns) :
          /\ turns[i].pc = "await"
          /\ turns[i].started
          /\ turns' = [turns EXCEPT ![i] = [@ EXCEPT !.pc = "raised"]]
    /\ UNCHANGED <<page, agent_memory, handlers, clicks>>
    /\ UNCHANGED turnVars
    /\ UNCHANGED knowledgeVars

SessionNext ==
    \/ Submit
    \/ Regenerate
    \/ ClearSessionClick
    \/ RunCleanOutputs
    \/ RunCleanOutputsStart
    \/ RunClearSession
    \/ TurnBegin
    \/ TurnStream
    \/ TurnNextFrame
    \/ TurnFrame
    \/ TurnEnd
    \/ TurnStreamRaises

SessionSpec == SessionInit /\ [][SessionNext]_vars

KnowledgeInit ==
    /\ NoTurn
    /\ knowledge_inputs \in [args : ConstructorArguments, package_found : BOOLEAN]
    /\ knowledge = NoObject
    /\ cache_dir \in CacheStates
    /\ last_call = NoCall
    /\ calls = 0
    /\ NoSession

\* knowledge = BaseKnowledge(files, loaders=..., use_cache=...)
Construct ==
    /\ knowledge.state = "none"
    /\ \E env \in Environments(AsList(knowledge_inputs.args.files)) :
          LET c == BaseKnowledge(knowledge_inputs.args,
                                 knowledge_inputs.package_found, cache_dir, env)
          IN  /\ knowledge' = c.self
              /\ cache_dir' = c.cache
              /\ last_call' = [op |-> "__init__",
                               files |-> AsList(knowledge_inputs.args.files),
                               env |-> env, raised |-> c.raised,
                               printed |-> c.printed,
                               before |-> NoQueryEngine, cache_before |-> cache_dir,
                               filters |-> <<>>, only_runs |-> TRUE]
    /\ UNCHANGED <<knowledge_inputs, calls>>
    /\ UNCHANGED turnVars
    /\ UNCHANGED sessionVars

\* knowledge.add(files)
Add ==
    /\ knowledge.state = "constructed"
    /\ calls < MaxCalls
    /\ \E files \in FileArguments :
          \E env \in Environments(AsList(files)) :
              LET a == add(knowledge, files, cache_dir, env)
              IN  /\ knowledge' = a.self
                  /\ cache_dir' = a.cache
                  /\ last_call' = [op |-> "add", files |-> AsList(files),
                                   env |-> env, raised |-> a.raised,
                                   printed |-> a.printed,
                                   before |-> knowledge.query_engine,
                                   cache_before |-> cache_dir,
                                   filters |-> <<>>, only_runs |-> FALSE]
    /\ calls' = calls + 1
    /\ UNCHANGED knowledge_inputs
    /\ UNCHANGED turnVars
    /\ UNCHANGED sessionVars

\* knowledge.get_root_retriever(documents, use_cache) called on its own:
\* the index is loaded, extended and persisted, query_engine stays.
GetRootRetriever ==
    /\ knowledge.state = "constructed"
    /\ calls < MaxCalls
    /\ \E documents \in {NoDocuments, Documents({"a.pdf"})} :
          \E use_cache \in BOOLEAN :
              \E env \in {e \in Environments(<<>>) : e.read = "docs" /\ e.engine} :
                  LET g == get_root_retriever(documents, use_cache, cache_dir, env)
                  IN  /\ cache_dir' = g.cache
                      /\ last_call' = [NoCall EXCEPT !.op = "get_root_retriever",
                                                     !.env = env,
                                                     !.raised = g.raised,
                                                     !.printed = g.printed,
                                                     !.before = knowledge.query_engine,
                                                     !.cache_before = cache_dir,
                                                     !.only_runs = FALSE]
    /\ calls' = calls + 1
    /\ UNCHANGED <<knowledge_inputs, knowledge>>
    /\ UNCHANGED turnVars
    /\ UNCHANGED sessionVars

\* The files argument of run: none, a list of one path, a path as a str.
RunArguments ==
    << [is_str |-> FALSE, value |-> <<>>],
       [is_str |-> FALSE, value |-> << <<"data", "a.pdf">> >>],
       [is_str |-> TRUE, value |-> <<"b.pdf">>] >>

\* knowledge.run(query, files)
Run ==
    /\ knowledge.state = "constructed"
    /\ calls < MaxCalls
    /\ \E a \in 1..Len(RunArguments) :
          \E query_ok \in BOOLEAN :
              LET files == RunArguments[a]
                  r == run(knowledge, files, query_ok)
              IN  /\ knowledge' = r.self
                  /\ last_call' = [NoCall EXCEPT !.op = "run",
                                                 !.files = AsList(files),
                                                 !.raised = r.raised,
                                                 !.before = knowledge.query_engine,
                                                 !.cache_before = cache_dir,
                                                 !.filters = r.filters,
                                                 !.only_runs = last_call.only_runs]
    /\ calls' = calls + 1
    /\ UNCHANGED <<knowledge_inputs, cache_dir>>
    /\ UNCHANGED turnVars
    /\ UNCHANGED sessionVars

\* The files argument of set_filter: no path, one path.
SetFilterArguments == { <<>>, << <<"data", "b.md">> >> }

\* knowledge.set_filter(files) called on its own
SetFilter ==
    /\ knowledge.state = "constructed"
    /\ calls < MaxCalls
    /\ \E files \in SetFilterArguments :
          LET f == set_filter(knowledge, files)
          IN  /\ knowledge' = f.self
              /\ last_call' = [NoCall EXCEPT !.op = "set_filter",
                                             !.raised = f.raised,
                                             !.before = knowledge.query_engine,
                                             !.cache_before = cache_dir,
                                             !.only_runs = FALSE]
    /\ calls' = calls + 1
    /\ UNCHANGED <<knowledge_inputs, cache_dir>>
    /\ UNCHANGED turnVars
    /\ UNCHANGED sessionVars

KnowledgeNext ==
    \/ Construct
    \/ Add
    \/ GetRootRetriever
    \/ SetFilter
    \/ Run

KnowledgeSpec == KnowledgeInit /\ [][KnowledgeNext]_vars

(***************************************************************************)
(* The state machine: the generator's positions are its yields and the     *)
(* read of the next frame.                                                 *)
(***************************************************************************)
Init ==
    /\ inputs \in TurnInputs
    /\ pc = "idle"
    /\ chatbot = inputs.chatbot
    /\ output_component = inputs.components
    /\ response = <<>>
    /\ frames = <<>>
    /\ snaps = <<>>
    /\ error = "none"
    /\ NoKnowledge
    /\ NoSession

\* Lines 217-254: the pending pair and the first yield.
Begin ==
    /\ pc = "idle"
    /\ chatbot' = Append(inputs.chatbot, PendingPair(inputs.user_input))
    /\ output_component' = OutputComponents(inputs)
    /\ snaps' = Append(snaps, Snapshot(chatbot', output_component'))
    /\ response' = <<>>
    /\ pc' = "await"
    /\ UNCHANGED <<inputs, frames, error>>
    /\ UNCHANGED knowledgeVars
    /\ UNCHANGED sessionVars

\* Line 256: the frame source hands over its next frame.
NextFrame ==
    /\ pc = "await"
    /\ Len(frames) < MaxFrames
    /\ \E i \in 1..Len(FrameChoices) : frames' = Append(frames, FrameChoices[i])
    /\ pc' = "got"
    /\ UNCHANGED <<inputs, chatbot, output_component, response, snaps, error>>
    /\ UNCHANGED knowledgeVars
    /\ UNCHANGED sessionVars

\* Lines 257-272: the frame is merged and its snapshot yielded, or the
\* exception of update_component leaves the generator.
ProcessFrame ==
    /\ pc = "got"
    /\ LET s == FrameStep(output_component, response, frames[Len(frames)])
       IN  /\ output_component' = s.oc
           /\ response' = s.response
           /\ IF s.raised # "none"
              THEN /\ pc' = "raised"
                   /\ error' = s.raised
                   /\ UNCHANGED <<chatbot, snaps>>
              ELSE /\ chatbot' = SetLast(chatbot, <<inputs.user_input, s.response>>)
                   /\ snaps' = Append(snaps, Snapshot(chatbot', s.oc))
                   /\ pc' = "await"
                   /\ UNCHANGED error
    /\ UNCHANGED <<inputs, frames>>
    /\ UNCHANGED knowledgeVars
    /\ UNCHANGED sessionVars

\* Lines 256, 275-277: the source is exhausted; the closing yield.
StreamExhausted ==
    /\ pc = "await"
    /\ chatbot' = SetLast(chatbot, <<inputs.user_input, response>>)
    /\ snaps' = Append(snaps, Snapshot(chatbot', output_component))
    /\ pc' = "done"
    /\ UNCHANGED <<inputs, output_component, response, frames, error>>
    /\ UNCHANGED knowledgeVars
    /\ UNCHANGED sessionVars

\* Line 256: the generation stream itself raises; nothing catches it.
StreamRaises ==
    /\ pc = "await"
    /\ pc' = "raised"
    /\ error' = "StreamError"
    /\ UNCHANGED <<inputs, chatbot, output_component, response, frames, snaps>>
    /\ UNCHANGED knowledgeVars
    /\ UNCHANGED sessionVars

Next ==
    \/ Begin
    \/ NextFrame
    \/ ProcessFrame
    \/ StreamExhausted
    \/ StreamRaises

Spec == Init /\ [][Next]_vars

TypeOK ==
    /\ pc \in {"idle", "await", "got", "done", "raised"}
    /\ Len(output_component) = 1 + 2 * MAX_SCENE
    /\ Len(frames) <= MaxFrames

(***************************************************************************)
(* Vocabulary of the properties.  snaps[1] is the snapshot of the turn's   *)
(* start, snaps[k + 1] the snapshot yielded for frame k, and a turn that   *)
(* ends at "done" has one closing snapshot after those.                    *)
(***************************************************************************)
\* The loop body applied to the frames 1..k in turn, from the turn's inputs.
RECURSIVE MergedUpTo(_)
MergedUpTo(k) ==
    IF k = 0
    THEN [raised |-> "none", oc |-> OutputComponents(inputs), response |-> <<>>]
    ELSE LET m == MergedUpTo(k - 1)
         IN  FrameStep(m.oc, m.response, frames[k])

\* What the snapshot of frame k has to show.
MergedSnapshot(k) ==
    [chatbot |-> Append(inputs.chatbot,
                        <<inputs.user_input, MergedUpTo(k).response>>),
     components |-> MergedUpTo(k).oc]

HasToolResult(frame) == len(Get(frame, "exec_result", <<>>)) # 0

(***************************************************************************)
(* C1: one snapshot is yielded for each frame, after the frame is merged   *)
(* and before the next frame is read, and the snapshot of frame k shows    *)
(* the merge of exactly the frames 1..k: when frame k is read the          *)
(* snapshots of frames 1..k-1 are out, when the loop waits for a frame the *)
(* snapshots of all frames read are out, and each shows that merge.        *)
(***************************************************************************)
C1_SnapshotPerFrame ==
    /\ pc = "got" => Len(snaps) = Len(frames)
    /\ pc = "await" => Len(snaps) = Len(frames) + 1
    /\ pc = "done" => Len(snaps) = Len(frames) + 2
    /\ \A k \in 1..Len(frames) :
          k + 1 <= Len(snaps) => snaps[k + 1] = MergedSnapshot(k)

C1_Witness ==
    /\ pc = "await"
    /\ Len(frames) = 3
    /\ Len(snaps) = 4
    /\ HasToolResult(frames[2])
    /\ ~HasToolResult(frames[3])
    /\ snaps[2] # snaps[3]
    /\ snaps[3] # snaps[4]

(***************************************************************************)
(* C2: the first snapshot is yielded before any frame is read; it shows    *)
(* the transcript passed in followed by the pending pair (the user input   *)
(* with no agent text), and every slot as passed in.                       *)
(***************************************************************************)
C2_FirstSnapshot ==
    /\ pc = "idle" => snaps = <<>> /\ frames = <<>>
    /\ frames # <<>> => snaps # <<>>
    /\ snaps # <<>> =>
          /\ snaps[1].chatbot =
                Append(inputs.chatbot, <<inputs.user_input, NoneText>>)
          /\ snaps[1].components =
                [i \in 1..Len(inputs.components) |-> Plain(inputs.components[i])]

C2_Witness ==
    /\ pc = "got"
    /\ Len(frames) = 1
    /\ Len(snaps) = 1
    /\ inputs.chatbot = EarlierChatbot
    /\ inputs.components = EarlierComponents
    /\ snaps[1].chatbot[Len(snaps[1].chatbot)] = <<"u1", NoneText>>
(***************************************************************************)
(* More vocabulary: the frames and what they did to the transcript.        *)
(***************************************************************************)
\* Frame k went through the loop body (the last frame read may still wait).
Handled(k) == k < Len(frames) \/ pc # "got"

\* The snapshot of frame k is out.
Emitted(k) == k + 1 <= Len(snaps)

\* The agent side of the current turn's pair in a snapshot, None read as ''.
AgentText(snap) ==
    LET t == snap.chatbot[Len(snap.chatbot)][2]
    IN  IF t = NoneText THEN <<>> ELSE t

IsPrefix(a, b) == Len(a) <= Len(b) /\ SubSeq(b, 1, Len(a)) = a

IsSuffix(a, b) ==
    Len(a) <= Len(b) /\ SubSeq(b, Len(b) - Len(a) + 1, Len(b)) = a

\* What the snapshot of frame k added to the agent text, after the newline.
Fragment(k) ==
    LET before == AgentText(snaps[k])
        after == AgentText(snaps[k + 1])
    IN  SubSeq(after, Len(before) + 2, Len(after))

\* The narrative of a frame: its text up to the marker, stripped.
Narrative(frame) == strip(SplitFirst(Get(frame, "llm_text", <<>>)))

\* A diagnostic is text: a fragment with something other than blanks in it.
IsDiagnostic(text) == \E j \in 1..Len(text) : text[j] \notin Whitespace

ToolResult(frame) == frame["exec_result"]["result"]

NamesTool(frame) ==
    /\ HasToolResult(frame)
    /\ "result" \in DOMAIN frame["exec_result"]
    /\ "name" \in DOMAIN ToolResult(frame)

IsImageGeneration(frame) ==
    NamesTool(frame) /\ ToolResult(frame)["name"] = "image_generation"

ParsesIdx(frame) ==
    /\ IsImageGeneration(frame)
    /\ "idx" \in DOMAIN ToolResult(frame)
    /\ int(ToolResult(frame)["idx"]).raised = "none"

IdxOf(frame) == int(ToolResult(frame)["idx"]).value

InRangeImage(frame) ==
    ParsesIdx(frame) /\ 0 <= IdxOf(frame) /\ IdxOf(frame) < MAX_SCENE

OutOfRangeImage(frame) ==
    ParsesIdx(frame) /\ ~(0 <= IdxOf(frame) /\ IdxOf(frame) < MAX_SCENE)

\* The failures of a tool result that C4 lists.
FaultyToolResult(frame) ==
    /\ HasToolResult(frame)
    /\ \/ ~NamesTool(frame)
       \/ IsImageGeneration(frame) /\ ~InRangeImage(frame)

RegisteredTools == {"print_story_tool", "show_image_example", "image_generation"}

UnknownTool(frame) ==
    NamesTool(frame) /\ ToolResult(frame)["name"] \notin RegisteredTools

(***************************************************************************)
(* C3 as claimed: once the snapshot of a frame with is_final = true is     *)
(* out, the turn is over: no further frame is read and no further          *)
(* snapshot is yielded.  The loop never looks at is_final, so this fails.  *)
(***************************************************************************)
C3_DoneAtFinalFrame ==
    \A k \in 1..Len(frames) :
        is_final(frames[k]) /\ Emitted(k) =>
            Len(frames) = k /\ Len(snaps) = k + 1

(***************************************************************************)
(* C4 as claimed: a faulty tool result (no 'result', no 'name', no 'idx',  *)
(* an idx that is no integer or is out of range) never halts the turn: no  *)
(* exception of update_component leaves the generator, the frame's         *)
(* snapshot is yielded and shows a diagnostic in the agent text.  Nothing  *)
(* catches the exceptions of update_component, so this fails.              *)
(***************************************************************************)
C4_ToolFailureNeverHalts ==
    /\ error \notin {"KeyError", "ValueError", "IndexError"}
    /\ \A k \in 1..Len(frames) :
          FaultyToolResult(frames[k]) /\ Handled(k) =>
              Emitted(k) /\ IsDiagnostic(Fragment(k))

(***************************************************************************)
(* C5: an image_generation result whose idx parses to i in 0..MAX_SCENE-1  *)
(* writes the image slot i and the caption slot i and nothing else: the    *)
(* snapshot of its frame differs from the one before in those two slots    *)
(* only, which hold the image and the caption of the result.               *)
(***************************************************************************)
C5_ImageWritesTwoSlots ==
    \A k \in 1..Len(frames) :
        InRangeImage(frames[k]) /\ Handled(k) =>
            LET i == IdxOf(frames[k])
                r == ToolResult(frames[k])
            IN  /\ Emitted(k)
                /\ snaps[k + 1].components =
                      [snaps[k].components EXCEPT
                          ![i + 2] = Update(r["img_result"]),
                          ![i + MAX_SCENE + 2] = Update(r["text_result"])]

C5_Witness ==
    /\ inputs.components = EarlierComponents
    /\ \E k \in 1..Len(frames) :
          /\ InRangeImage(frames[k])
          /\ IdxOf(frames[k]) = 3
          /\ Emitted(k)
          /\ snaps[k].components[5] = Plain("old_img3")
          /\ snaps[k + 1].components[5] = Update([value |-> "img_2"])
          /\ snaps[k + 1].components[9] = Update([value |-> "txt_2"])

(***************************************************************************)
(* C6 as claimed: an image_generation result whose idx is an integer       *)
(* outside 0..MAX_SCENE-1 is rejected: nothing is raised, the frame's      *)
(* snapshot is yielded and no slot differs from the snapshot before.       *)
(* update_component has no range check, so this fails.                     *)
(***************************************************************************)
C6_OutOfRangeRejected ==
    \A k \in 1..Len(frames) :
        OutOfRangeImage(frames[k]) /\ Handled(k) =>
            /\ error = "none"
            /\ Emitted(k)
            /\ snaps[k + 1].components = snaps[k].components

(***************************************************************************)
(* C7 as claimed: a tool result that names an unregistered tool leaves     *)
(* every slot as it was and merges a diagnostic into the agent text.  The  *)
(* code merges a single blank and no diagnostic, so this fails.            *)
(***************************************************************************)
C7_UnknownToolDiagnostic ==
    \A k \in 1..Len(frames) :
        UnknownTool(frames[k]) /\ Handled(k) =>
            /\ Emitted(k)
            /\ snaps[k + 1].components = snaps[k].components
            /\ IsDiagnostic(Fragment(k))

(***************************************************************************)
(* C8 as claimed: the snapshot of every frame, also of a frame that        *)
(* carries a tool result, has the frame's narrative appended to the agent  *)
(* text.  A frame with a tool result gets a blank in place of its          *)
(* narrative, so this fails.                                               *)
(***************************************************************************)
C8_NarrativeAlwaysAppended ==
    \A k \in 1..Len(frames) :
        Emitted(k) =>
            /\ IsPrefix(AgentText(snaps[k]), AgentText(snaps[k + 1]))
            /\ IsSuffix(Narrative(frames[k]), Fragment(k))

(***************************************************************************)
(* C9: within a turn the agent text only grows at its end: each snapshot's *)
(* agent text has the one before as a prefix, the transcript before the    *)
(* turn's pair stays as passed in, and the snapshot of frame k adds, after *)
(* a newline, the fragment of frame k (its narrative, or a blank when it   *)
(* carries a tool result), so the fragments stand in arrival order.        *)
(***************************************************************************)
C9_AgentTextGrowsByAppending ==
    /\ \A j \in 1..(Len(snaps) - 1) :
          /\ IsPrefix(AgentText(snaps[j]), AgentText(snaps[j + 1]))
          /\ Len(snaps[j + 1].chatbot) = Len(inputs.chatbot) + 1
          /\ SubSeq(snaps[j + 1].chatbot, 1, Len(inputs.chatbot)) = inputs.chatbot
    /\ \A k \in 1..Len(frames) :
          Emitted(k) =>
              AgentText(snaps[k + 1]) =
                  AgentText(snaps[k]) \o <<"\n">> \o
                  (IF HasToolResult(frames[k]) THEN <<" ">>
                   ELSE Narrative(frames[k]))

C9_Witness ==
    /\ Len(frames) = 3
    /\ Len(snaps) = 4
    /\ \A k \in 1..3 : ~HasToolResult(frames[k])
    /\ Narrative(frames[1]) # Narrative(frames[2])
    /\ AgentText(snaps[4]) = <<"\n", "a", "\n", "b", "\n", "a">>

\* The slots (positions in the snapshot) a well-formed tool result writes,
\* each with the value written.
Writes(frame) ==
    IF ~NamesTool(frame) THEN {}
    ELSE LET r == ToolResult(frame)
         IN  IF r["name"] = "print_story_tool"
             THEN {<<1, Update(Without(r, "name"))>>}
             ELSE IF r["name"] = "show_image_example"
             THEN {<<i + 1, Update(r["result"][i])>> : i \in 1..Len(r["result"])}
             ELSE IF InRangeImage(frame)
             THEN {<<IdxOf(frame) + 2, Update(r["img_result"])>>,
                   <<IdxOf(frame) + MAX_SCENE + 2, Update(r["text_result"])>>}
             ELSE {}

(***************************************************************************)
(* C10: slots other than the transcript are last-write-wins: when two      *)
(* frames in a row carry tool results that write the same slot, the        *)
(* snapshot of the first shows the first value in it, the snapshot of the  *)
(* second shows the second value and nothing of the first, and the number  *)
(* of slots stays the same.                                                *)
(***************************************************************************)
C10_LastWriteWins ==
    \A k \in 1..(Len(frames) - 1) :
        Emitted(k + 1) =>
            \A w1 \in Writes(frames[k]), w2 \in Writes(frames[k + 1]) :
                w1[1] = w2[1] =>
                    /\ snaps[k + 1].components[w1[1]] = w1[2]
                    /\ snaps[k + 2].components[w1[1]] = w2[2]
                    /\ Len(snaps[k + 2].components) = Len(snaps[k + 1].components)
                    /\ Len(snaps[k + 2].components) = 1 + 2 * MAX_SCENE

C10_Witness ==
    \E k \in 1..(Len(frames) - 1) :
        /\ Emitted(k + 1)
        /\ InRangeImage(frames[k])
        /\ InRangeImage(frames[k + 1])
        /\ IdxOf(frames[k]) = 0
        /\ IdxOf(frames[k + 1]) = 0
        /\ snaps[k + 1].components[2] = Update([value |-> "img_1"])
        /\ snaps[k + 2].components[2] = Update([value |-> "img_2"])
        /\ snaps[k + 2].components[6] = Update([value |-> "txt_2"])
\* The slots a tool result writes, without the values.
SlotsOf(frame) == {w[1] : w \in Writes(frame)}

(***************************************************************************)
(* C11: updates to different slots commute: when two frames in a row carry *)
(* well-formed tool results that write disjoint slots, applying the two    *)
(* results in the other order to the slots shown before them gives exactly *)
(* the slots shown after them.                                             *)
(***************************************************************************)
C11_DisjointUpdatesCommute ==
    \A k \in 1..(Len(frames) - 1) :
        /\ Emitted(k + 1)
        /\ HasToolResult(frames[k]) /\ ~FaultyToolResult(frames[k])
        /\ HasToolResult(frames[k + 1]) /\ ~FaultyToolResult(frames[k + 1])
        /\ SlotsOf(frames[k]) \cap SlotsOf(frames[k + 1]) = {}
        => LET second == update_component(snaps[k].components,
                                          frames[k + 1]["exec_result"])
               first == update_component(second.oc, frames[k]["exec_result"])
           IN  /\ second.raised = "none"
               /\ first.raised = "none"
               /\ first.oc = snaps[k + 2].components

C11_Witness ==
    \E k \in 1..(Len(frames) - 1) :
        /\ Emitted(k + 1)
        /\ InRangeImage(frames[k]) /\ IdxOf(frames[k]) = 0
        /\ InRangeImage(frames[k + 1]) /\ IdxOf(frames[k + 1]) = 3
        /\ snaps[k + 2].components[2] = Update([value |-> "img_1"])
        /\ snaps[k + 2].components[5] = Update([value |-> "img_2"])
        /\ snaps[k].components[2] # Update([value |-> "img_1"])
        /\ snaps[k].components[5] # Update([value |-> "img_2"])
\* The text holds a start marker that no end marker follows.
HasOpenBlock(text) ==
    \E i \in 1..Len(text) :
        /\ text[i] = START_MARK
        /\ \A j \in (i + 1)..Len(text) : text[j] # END_MARK

\* The text before its first start marker.
RECURSIVE BeforeStart(_)
BeforeStart(text) ==
    IF text = <<>> \/ Head(text) = START_MARK
    THEN <<>>
    ELSE <<Head(text)>> \o BeforeStart(Tail(text))

(***************************************************************************)
(* C16 as claimed: for a frame whose text holds a start marker with no end *)
(* marker after it, the agent text of the frame's snapshot leaves out the  *)
(* marker and all that follows it.  story_agent cuts the text at the       *)
(* "<|user|>" marker only, so this fails.                                  *)
(***************************************************************************)
C16_NoOpenBlockShown ==
    \A k \in 1..Len(frames) :
        Emitted(k) /\ HasOpenBlock(Get(frames[k], "llm_text", <<>>)) =>
            /\ \A j \in 1..Len(Fragment(k)) : Fragment(k)[j] # START_MARK
            /\ IsPrefix(Fragment(k),
                        BeforeStart(Get(frames[k], "llm_text", <<>>)))

(***************************************************************************)
(* C17 as claimed: when the generation stream itself raises, the turn ends *)
(* at "done" with a closing snapshot that shows a diagnostic in the agent  *)
(* text, and no exception leaves the generator.  Nothing catches the       *)
(* exception of the stream, so this fails.                                 *)
(***************************************************************************)
C17_StreamFailureEndsInDone ==
    error = "StreamError" =>
        /\ pc = "done"
        /\ Len(snaps) = Len(frames) + 2
        /\ IsDiagnostic(AgentText(snaps[Len(snaps)]))
        /\ SubSeq(snaps[Len(snaps)].chatbot, 1, Len(inputs.chatbot)) =
              inputs.chatbot

(***************************************************************************)
(* C18 as claimed: every turn ends at "done" after a last snapshot,        *)
(* whatever the frames carry: a turn that can take no further step is at   *)
(* "done" and its closing snapshot is out.  A turn that an exception ended *)
(* (C4, C17) stops elsewhere, so this fails.                               *)
(***************************************************************************)
C18_TurnEndsInDone ==
    /\ pc = "done" \/ ENABLED Next
    /\ pc = "done" => Len(snaps) = Len(frames) + 2

(***************************************************************************)
(* BaseKnowledge: the vocabulary of the claims.                            *)
(***************************************************************************)
Constructed == knowledge.state = "constructed"

AddReturned == last_call.op = "add"

ReadFails == last_call.env.read # "docs"

ReadRaises == last_call.env.read = "Exception"

\* The call loaded the index from the cache.
LoadedFromCache == last_call.cache_before.exists /\ last_call.env.load

\* Building the retriever raised: while the index was built from the
\* documents or extended by one, or while it was persisted.
RetrieverFails ==
    \/ /\ last_call.env.index = "build_raises"
       /\ ~(LoadedFromCache /\ last_call.env.read = "ValueError")
    \/ last_call.env.index = "persist_raises"

EngineFails == ~last_call.env.engine

EngineKept == knowledge.query_engine = last_call.before

\* The documents the index of a successful add holds.
IndexedByAdd ==
    (IF LoadedFromCache THEN last_call.cache_before.docs ELSE {})
    \cup (IF last_call.env.read = "docs"
          THEN {last_call.files[i] : i \in 1..Len(last_call.files)} ELSE {})

\* C19: once the object is constructed, extra_readers is a mapping that
\* holds every loader that could be instantiated under its extension, and
\* the built-in readers too when the readers package is installed.
C19_ExtraReadersIsMapping ==
    Constructed =>
        /\ knowledge.extra_readers.type = "dict"
        /\ \A e \in DOMAIN knowledge_inputs.args.loaders :
              Instantiates(knowledge_inputs.args.loaders[e]) =>
                  /\ e \in DOMAIN knowledge.extra_readers.items
                  /\ knowledge.extra_readers.items[e]
                        = Instance(knowledge_inputs.args.loaders[e])
        /\ knowledge_inputs.package_found =>
              \A e \in DOMAIN BuiltinReaders :
                  e \in DOMAIN knowledge.extra_readers.items

\* C20 as stated: add never raises; when reading, building the retriever or
\* building the query engine fails, the failure is reported and
\* query_engine is the one from before the call; query_engine is replaced
\* only when all three steps succeed.
C20_AddKeepsEngineOnAnyFailure ==
    AddReturned =>
        /\ last_call.raised = "none"
        /\ (ReadFails \/ RetrieverFails \/ EngineFails) =>
              last_call.printed /\ EngineKept
        /\ ~EngineKept => ~ReadFails /\ ~RetrieverFails /\ ~EngineFails

\* C20 amended: add never raises; when reading raises anything but a
\* ValueError, or building the retriever or the query engine raises, the
\* failure is reported and query_engine is the one from before the call;
\* otherwise query_engine is a new engine over the cached index and the
\* documents read, which are none when the reader raised a ValueError.
C20_AddKeepsEngineUnlessValueError ==
    AddReturned =>
        /\ last_call.raised = "none"
        /\ (ReadRaises \/ RetrieverFails \/ EngineFails) =>
              last_call.printed /\ EngineKept
        /\ ~(ReadRaises \/ RetrieverFails \/ EngineFails) =>
              /\ knowledge.query_engine.set
              /\ knowledge.query_engine.id # last_call.before.id
              /\ knowledge.query_engine.retriever.docs = IndexedByAdd
              /\ ReadFails => last_call.printed

C20_Witness ==
    /\ AddReturned
    /\ last_call.env.read = "ValueError"
    /\ last_call.before.set
    /\ knowledge.query_engine.id # last_call.before.id
    /\ knowledge.query_engine.retriever.docs = last_call.cache_before.docs


(***************************************************************************)
(* The session: the vocabulary of the claims.                              *)
(***************************************************************************)
IsReset(click) == click.name = "clear_session_button.click"

NoResetYet == \A k \in 1..Len(clicks) : ~IsReset(clicks[k])

\* The last event was a reset made while nothing was running or waiting,
\* and the handlers it fired have run.
ResetDoneBetweenTurns ==
    /\ Len(clicks) > 0
    /\ IsReset(clicks[Len(clicks)])
    /\ clicks[Len(clicks)].quiet
    /\ \A h \in DOMAIN handlers : handlers[h] = 0

\* The slots that hold something other than their placeholder.
Populated(values) == {i \in 1..Len(values) : values[i] # InitialComponents[i]}

\* The values the items of output_component put on a page of placeholders.
ValuesOf(oc) == [i \in 1..Len(oc) |-> Shown(oc[i], InitialComponents[i])]

\* C12: after a reset that follows any sequence of turns, the transcript
\* and every slot hold their initial placeholders and the agent memory is
\* empty, as in a freshly constructed session.
C12_ResetRestoresPlaceholders ==
    ResetDoneBetweenTurns =>
        /\ page.chatbot = InitialPage.chatbot
        /\ page.components = InitialPage.components
        /\ agent_memory = <<>>

\* C13: without a reset, what a completed turn left in the transcript and
\* the slots is still displayed during and after every later turn,
\* however the handlers of the later event interleave.
C13_RenderStatePersists ==
    NoResetYet =>
        \A j \in 1..Len(turns) : \A i \in turns[j].after :
            /\ IsPrefix(turns[i].chatbot, page.chatbot)
            /\ Populated(ValuesOf(turns[i].output_component))
                  \subseteq Populated(page.components)

\* C14: at no time are two story_agent turns in flight in one session.
C14_TurnsSerialized == Cardinality(Running) <= 1

\* C15: a turn that was in flight when the session was reset yields no
\* further snapshot onto the cleared page.
C15_InterruptedTurnYieldsNothing ==
    \A i \in 1..Len(turns) : ~turns[i].rewrote


RunReturned == last_call.op = "run"

SetFilterReturned == last_call.op = "set_filter"

\* Every call made on the object since its construction was a run.
OnlyRuns == last_call.only_runs

\* C21: once the constructor has returned, query_engine is defined
\* whatever use_cache, the cache and the files are, so a later run or
\* set_filter finds a query engine to work on.
C21_QueryEngineDefined ==
    /\ Constructed => knowledge.query_engine.set
    /\ (RunReturned \/ SetFilterReturned) => last_call.raised # "AttributeError"

\* C22: after any sequence of run calls, a run with an empty files argument
\* queries with no file-name filter, whatever the earlier runs on the same
\* query engine passed.
C22_FilterScopedToCall ==
    (RunReturned /\ OnlyRuns /\ last_call.files = <<>>
     /\ last_call.raised = "none") =>
        last_call.filters = <<>>

====
